---- MODULE Spec2Model ----
(***************************************************************************)
(* A model of node_engine: the NodeGraph arena with its connection index   *)
(* (src/graph.rs), the typed input ports (src/input.rs), the interpretive  *)
(* evaluator NodeGraphExecution (src/eval.rs) and the shader compiler      *)
(* NodeGraphCompile with its code blocks (src/compile.rs).                 *)
(***************************************************************************)
EXTENDS Integers, Sequences, FiniteSets, TLC

\* ------------------------------------------------------------------ bounds
MaxNodes == 2       \* node ids a caller can name in the editing model: 1..MaxNodes
MaxChanged == 4     \* cap of the `changed` counter (usize in the code)
MaxKeyIdx == 1      \* positional input keys tried: Idx(0)..Idx(MaxKeyIdx)

NodeIds == 1..MaxNodes

\* ------------------------------------------------------------- data types
\* One representative per DataTypeClass of `enum DataType`.
DataTypes == {"F32", "Vec4", "Mat2"}

class(dt) ==
  CASE dt \in {"I32", "U32", "F32"} -> "Scalar"
    [] dt \in {"Vec2", "Vec3", "Vec4"} -> "Vector"
    [] OTHER -> "Matrix"

is_compatible(self, other) ==
  IF self = other THEN TRUE
  ELSE IF class(self) = class(other) THEN TRUE
  ELSE \/ (class(self) = "Scalar" /\ class(other) = "Vector")
       \/ (class(self) = "Vector" /\ class(other) = "Scalar")

\* A Value: its DataType and its first component (x).
MkValue(dt, x) == [dt |-> dt, x |-> x]

\* ------------------------------------------------------------- node kinds
\* "ScalarMath": inputs A, B of type f32, cache-eligible, eval = A + B.
\* "Fragment":   input Color of type Color, not cache-eligible, eval = Color.
Kinds == {"ScalarMath", "Fragment"}

\* Scalar Math, the node kind of the evaluator's test and of the benchmarks.
ScalarMath_input_types == <<"f32", "f32">>
ScalarMath_input_names == <<"A", "B">>
ScalarMath_cache_output == TRUE

\* struct FragmentOutputNode
FragmentOutputNode_input_types == <<"Color">>
FragmentOutputNode_input_names == <<"Color">>

\* The ValueType of each declared input, in declaration order (index 0 first).
KindInputTypes(kind) ==
  IF kind = "ScalarMath" THEN ScalarMath_input_types ELSE FragmentOutputNode_input_types

\* The declared input names, in declaration order.
KindInputNames(kind) ==
  IF kind = "ScalarMath" THEN ScalarMath_input_names ELSE FragmentOutputNode_input_names

NumInputs(kind) == Len(KindInputTypes(kind))

\* NodeImpl::cache_output: false unless the node kind overrides it.
cache_output(kind) == IF kind = "ScalarMath" THEN ScalarMath_cache_output ELSE FALSE

\* ValueType::data_type
data_type(ty) == IF ty = "f32" THEN "F32" ELSE "Vec4"

\* ValueType::set_value: [ok, value]; on Err the stored value is untouched.
set_value(ty, cur, val) ==
  IF ty = "f32"
  THEN IF class(val.dt) \in {"Scalar", "Vector"}
       THEN [ok |-> TRUE, value |-> MkValue("F32", val.x)]
       ELSE [ok |-> FALSE, value |-> cur]
  ELSE IF val.dt = "Vec4"
       THEN [ok |-> TRUE, value |-> val]
       ELSE [ok |-> FALSE, value |-> cur]

\* T::default()
DefaultValue(ty) == MkValue(data_type(ty), 0)

\* ------------------------------------------------------------------- ids
NoConn == [none |-> TRUE]
NoDt == "NoDt"
NoNode == 0

InputId(n, i) == [node |-> n, idx |-> i]
OutputId(n, i) == [node |-> n, idx |-> i]

\* enum Input
Disconnect == [tag |-> "Disconnect"]
Connect(o, dt) == [tag |-> "Connect", id |-> o, dt |-> dt]
Literal(v) == [tag |-> "Value", value |-> v]

\* enum InputKey
KeyIdx(i) == [tag |-> "Idx", idx |-> i]
KeyName(s) == [tag |-> "Name", name |-> s]

\* InputTyped::new: a port holding a literal, not connected.
NewPort(ty) == [value |-> DefaultValue(ty), connected |-> NoConn]

\* A node as the registry's factory builds it: every input at its default.
NewNode(kind) ==
  [kind |-> kind,
   inputs |-> [i \in 0..(NumInputs(kind) - 1) |-> NewPort(KindInputTypes(kind)[i + 1])]]

\* ------------------------------------------------------------------ state
VARIABLES
  nodes,        \* NodeGraph.nodes: NodeId -> node (kind, per-port InputTyped state)
  connections,  \* NodeGraph.connections: InputId -> OutputId
  output,       \* NodeGraph.output: NoNode or a NodeId
  changed,      \* NodeGraph.changed
  last          \* the last NodeGraph call and what it returned

gvars == <<nodes, connections, output, changed, last>>

\* ---------------------------------------------------------------- helpers
MapRemove(f, k) == [x \in DOMAIN f \ {k} |-> f[x]]
MapInsert(f, k, v) == [x \in DOMAIN f \cup {k} |-> IF x = k THEN v ELSE f[x]]

\* as_input: the port's state as an Input.
as_input(port) ==
  IF port.connected # NoConn
  THEN Connect(port.connected.id, port.connected.dt)
  ELSE Literal(port.value)

\* NodeDefinition::get_input_idx / NodeImpl::get_input_idx: [ok, idx].
\* A positional key is returned as it is, whatever the number of inputs.
get_input_idx(kind, key) ==
  IF key.tag = "Idx" THEN [ok |-> TRUE, idx |-> key.idx]
  ELSE IF \E i \in 1..NumInputs(kind) : KindInputNames(kind)[i] = key.name
       THEN [ok |-> TRUE,
             idx |-> (CHOOSE i \in 1..NumInputs(kind) : KindInputNames(kind)[i] = key.name) - 1]
       ELSE [ok |-> FALSE, idx |-> 0]

\* InputTyped::set_input: [ok, port, old].  `connected.take()` runs first, so
\* the port is left disconnected also when the call returns Err.
InputTyped_set_input(ty, port, input) ==
  LET old == IF port.connected # NoConn THEN port.connected.id ELSE NoConn
      taken == [port EXCEPT !.connected = NoConn]
  IN CASE input.tag = "Disconnect" ->
            [ok |-> TRUE, port |-> taken, old |-> old]
       [] input.tag = "Value" ->
            LET r == set_value(ty, port.value, input.value)
            IN [ok |-> r.ok, port |-> [taken EXCEPT !.value = r.value], old |-> old]
       [] OTHER ->
            IF input.dt # NoDt /\ ~is_compatible(data_type(ty), input.dt)
            THEN [ok |-> FALSE, port |-> taken, old |-> old]
            ELSE [ok |-> TRUE,
                  port |-> [taken EXCEPT !.connected = [id |-> input.id, dt |-> input.dt]],
                  old |-> old]

\* impl_node! set_node_input: [ok, node, old].
Node_set_node_input(node, key, input) ==
  LET r == get_input_idx(node.kind, key)
  IN IF ~r.ok \/ r.idx \notin DOMAIN node.inputs
     THEN [ok |-> FALSE, node |-> node, old |-> NoConn]
     ELSE LET s == InputTyped_set_input(KindInputTypes(node.kind)[r.idx + 1],
                                        node.inputs[r.idx], input)
          IN [ok |-> s.ok,
              node |-> [node EXCEPT !.inputs[r.idx] = s.port],
              old |-> s.old]

\* ------------------------------------------------------- NodeGraph methods
contains(id) == id \in DOMAIN nodes

\* (mutant) add that stores the node under the id it carries.
add_Overwrite(id, kind) ==
  /\ changed < MaxChanged
  /\ nodes' = MapInsert(nodes, id, NewNode(kind))
  /\ last' = [op |-> "add", id |-> id, ret |-> id, aux |-> {}]
  /\ changed' = changed + 1
  /\ UNCHANGED <<connections, output>>

\* NodeGraph::add.  The node passed in carries `id`; a node whose id is taken
\* gets a new one (Uuid::new_v4: some id no stored node holds).
add(id, kind) ==
  /\ changed < MaxChanged
  /\ Cardinality(DOMAIN nodes) < MaxNodes
  /\ \E nid \in NodeIds :
       /\ IF contains(id) THEN ~contains(nid) ELSE nid = id
       /\ nodes' = MapInsert(nodes, nid, NewNode(kind))
       /\ last' = [op |-> "add", id |-> id, ret |-> nid, aux |-> {}]
  /\ changed' = changed + 1
  /\ UNCHANGED <<connections, output>>

\* The inputs of stored nodes other than `id` whose index entry points at `id`.
Severed(id) ==
  {j \in DOMAIN connections :
     /\ connections[j].node = id /\ j.node # id /\ j.node \in DOMAIN nodes
     /\ j.idx \in DOMAIN nodes[j.node].inputs
     /\ nodes[j.node].inputs[j.idx].connected # NoConn}

\* (mutant) remove that drops the index entries and leaves the dependents' ports alone.
SeverNode_Skip(n, id) == nodes[n]

\* The retain closure of remove, applied to one stored node: every port an
\* index entry pointing at `id` names is set to Disconnect.
SeverNode(n, id) ==
  [nodes[n] EXCEPT !.inputs =
     [i \in DOMAIN nodes[n].inputs |->
        IF /\ InputId(n, i) \in DOMAIN connections
           /\ connections[InputId(n, i)].node = id
        THEN [nodes[n].inputs[i] EXCEPT !.connected = NoConn]
        ELSE nodes[n].inputs[i]]]

\* NodeGraph::remove
remove(id) ==
  /\ changed < MaxChanged
  /\ changed' = changed + 1
  /\ connections' =
       [i \in {j \in DOMAIN connections : connections[j].node # id /\ j.node # id}
          |-> connections[i]]
  /\ nodes' = [n \in DOMAIN nodes \ {id} |-> SeverNode(n, id)]
  /\ last' = [op |-> "remove", id |-> id, ret |-> contains(id), aux |-> Severed(id)]
  /\ UNCHANGED output

\* NodeGraph::set_node_input
set_node_input(id, key, value) ==
  /\ changed < MaxChanged
  /\ UNCHANGED output
  /\ IF ~contains(id)
     THEN /\ last' = [op |-> "set_node_input", id |-> id, ret |-> "Err", aux |-> {}]
          /\ UNCHANGED <<nodes, connections, changed>>
     ELSE LET k == get_input_idx(nodes[id].kind, key)
              input_id == InputId(id, k.idx)
          IN IF ~k.ok
             THEN /\ last' = [op |-> "set_node_input", id |-> id, ret |-> "Err", aux |-> {}]
                  /\ UNCHANGED <<nodes, connections, changed>>
             ELSE IF value.tag = "Disconnect" /\ input_id \notin DOMAIN connections
             THEN /\ last' = [op |-> "set_node_input", id |-> id, ret |-> "Ok", aux |-> {}]
                  /\ UNCHANGED <<nodes, connections, changed>>
             ELSE LET r == Node_set_node_input(nodes[id], key, value)
                  IN /\ connections' =
                          CASE value.tag = "Disconnect" -> MapRemove(connections, input_id)
                            [] value.tag = "Connect" -> MapInsert(connections, input_id, value.id)
                            [] OTHER -> connections
                     /\ nodes' = [nodes EXCEPT ![id] = r.node]
                     /\ changed' = IF r.ok THEN changed + 1 ELSE changed
                     /\ last' = [op |-> "set_node_input", id |-> id,
                                 ret |-> IF r.ok THEN "Ok" ELSE "Err", aux |-> {}]

\* NodeGraph::get_node_input over the node's get_node_input (impl_node!):
\* [ok, input]; a missing node, an unknown key and a position that is no
\* field of the node are errors.
get_node_input(id, key) ==
  IF id \notin DOMAIN nodes THEN [ok |-> FALSE, input |-> Disconnect]
  ELSE LET r == get_input_idx(nodes[id].kind, key)
       IN IF ~r.ok \/ r.idx \notin DOMAIN nodes[id].inputs
          THEN [ok |-> FALSE, input |-> Disconnect]
          ELSE [ok |-> TRUE, input |-> as_input(nodes[id].inputs[r.idx])]

\* NodeGraph::set_output
set_output(o) ==
  /\ changed < MaxChanged
  /\ changed' = changed + 1
  /\ output' = o
  /\ last' = [op |-> "set_output", id |-> o, ret |-> "Ok", aux |-> {}]
  /\ UNCHANGED <<nodes, connections>>

\* (mutant) output() that falls back to node 1 when no output is set.
graph_output_OrFirst == IF output = NoNode THEN 1 ELSE output

\* NodeGraph::output
graph_output == output

\* ------------------------------------------------------- inputs of the calls
Keys == {KeyIdx(i) : i \in 0..MaxKeyIdx} \cup {KeyName(s) : s \in {"Color", "X"}}

LiteralValues == {MkValue("F32", 1), MkValue("Vec4", 1), MkValue("Mat2", 1)}

InputValues ==
  {Disconnect}
    \cup {Connect(OutputId(n, 0), dt) : n \in NodeIds, dt \in {NoDt, "Vec4", "Mat2"}}
    \cup {Literal(v) : v \in LiteralValues}

\* ------------------------------------------------------------ the evaluator
MaxEdits == 1       \* successful edits of a literal between the calls of an execution
MaxEvalNodes == 3   \* node ids of the graphs handed to the evaluator: 1..MaxEvalNodes

EvalNodeIds == 1..MaxEvalNodes

\* Deepest recursion the model follows.  A traversal that returns never gets
\* this deep on a graph of at most MaxEvalNodes nodes; one that does has entered
\* a cycle of nodes that are not cache-eligible and recurses until the call
\* stack is exhausted.
StackLimit == 2 * MaxEvalNodes + 2

VARIABLES
  exec_nodes,   \* NodeGraphExecution.nodes: NodeId -> NodeState
  stack,        \* the eval_node calls in progress, outermost first
  eval_pc,      \* "idle", "running", "done" (the call returned) or "overflow"
  eval_result,  \* what the last call returned
  eval_count,   \* per node: calls of the node's eval logic in this call
  visits,       \* calls of eval_node in this call
  call_graph,   \* the graph the current call was started on, and how it was started
  prev          \* the result of the call before, and how that call was started

evars == <<exec_nodes, stack, eval_pc, eval_result, eval_count, visits, call_graph, prev>>

\* enum NodeState
Processing == [state |-> "Processing"]
Cached(v) == [state |-> "Cached", value |-> v]

NoResult == [tag |-> "None"]
Ok(v) == [tag |-> "Ok", value |-> v]
Err(msg) == [tag |-> "Err", msg |-> msg]

MissingOutput == Err("Graph missing output node")
MissingNode == Err("Missing node")
CycleError == Err("Recursive node connection")
ValueError == Err("Expected a Vec4 (Color)")

\* The eval logic of Scalar Math on the values of its inputs: A + B.
ScalarMath_eval(vals) == MkValue("F32", vals[1].x + vals[2].x)

\* FragmentOutputNode::eval on the value of its input: the colour, as a Value.
FragmentOutputNode_eval(vals) == vals[1]

\* Node::eval: the eval logic of the node's kind.
KindEval(kind, vals) ==
  IF kind = "ScalarMath" THEN ScalarMath_eval(vals) ELSE FragmentOutputNode_eval(vals)

\* InputTyped::eval on the inputs from `idx` on: a port that is not connected
\* yields its own value; the traversal stops at the next connected port.
RECURSIVE Advance(_, _, _)
Advance(node, idx, vals) ==
  IF idx \notin DOMAIN node.inputs \/ node.inputs[idx].connected # NoConn
  THEN [idx |-> idx, vals |-> vals]
  ELSE Advance(node, idx + 1, Append(vals, node.inputs[idx].value))

\* The evaluator's state as one record.
Machine ==
  [exec |-> exec_nodes, stack |-> stack, pc |-> eval_pc, result |-> eval_result,
   count |-> eval_count, visits |-> visits]

\* The call returns `res` to the caller of eval_graph (`?` unwinds every frame).
Finish(m, res) == [m EXCEPT !.pc = "done", !.result = res, !.stack = << >>]

\* InputTyped::eval, connected branch, once eval_node returned Ok(v): the
\* value is converted to the port's type and the node's eval logic goes on.
Deliver(m, v) ==
  IF m.stack = << >> THEN Finish(m, Ok(v))
  ELSE LET top == m.stack[Len(m.stack)]
           node == nodes[top.id]
           r == set_value(KindInputTypes(node.kind)[top.idx + 1],
                          DefaultValue(KindInputTypes(node.kind)[top.idx + 1]), v)
           a == Advance(node, top.idx + 1, Append(top.vals, r.value))
       IN IF ~r.ok THEN Finish(m, ValueError)
          ELSE [m EXCEPT !.stack[Len(m.stack)] = [id |-> top.id, idx |-> a.idx, vals |-> a.vals]]

\* The node's eval logic starts: a new frame, advanced to its first connected input.
PushFrame(m, id) ==
  IF Len(m.stack) >= StackLimit
  THEN [m EXCEPT !.pc = "overflow", !.result = NoResult]
  ELSE LET a == Advance(nodes[id], 0, << >>)
       IN [m EXCEPT !.stack = Append(m.stack, [id |-> id, idx |-> a.idx, vals |-> a.vals]),
                    !.count[id] = @ + 1]

\* (mutant) eval_node that never looks at the node-state map.
eval_node_NoCache(m0, id) ==
  LET m == [m0 EXCEPT !.visits = @ + 1]
  IN IF id \notin DOMAIN nodes THEN Finish(m, MissingNode) ELSE PushFrame(m, id)

\* (mutant) eval_node that caches the output of every kind of node.
eval_node_CachesAll(m0, id) ==
  LET m == [m0 EXCEPT !.visits = @ + 1]
  IN IF id \notin DOMAIN nodes THEN Finish(m, MissingNode)
     ELSE IF id \in DOMAIN m.exec
          THEN IF m.exec[id] = Processing
               THEN Finish(m, CycleError)
               ELSE Deliver(m, m.exec[id].value)
          ELSE PushFrame([m EXCEPT !.exec = MapInsert(m.exec, id, Processing)], id)

\* NodeGraphExecution::eval_node, up to the call of the node's eval logic.
eval_node(m0, id) ==
  LET m == [m0 EXCEPT !.visits = @ + 1]
  IN IF id \notin DOMAIN nodes THEN Finish(m, MissingNode)
     ELSE IF cache_output(nodes[id].kind)
     THEN IF id \in DOMAIN m.exec
          THEN IF m.exec[id] = Processing
               THEN Finish(m, CycleError)
               ELSE Deliver(m, m.exec[id].value)
          ELSE PushFrame([m EXCEPT !.exec = MapInsert(m.exec, id, Processing)], id)
     ELSE PushFrame(m, id)

\* (mutant) eval_node that caches the node's first operand as its value.
eval_node_return_CachesOperand(m) ==
  LET top == m.stack[Len(m.stack)]
      kind == nodes[top.id].kind
      value == KindEval(kind, top.vals)
      popped == [m EXCEPT !.stack = SubSeq(m.stack, 1, Len(m.stack) - 1),
                          !.exec = IF cache_output(kind)
                                   THEN MapInsert(m.exec, top.id, Cached(top.vals[1]))
                                   ELSE m.exec]
  IN Deliver(popped, value)

\* NodeGraphExecution::eval_node, from the return of the node's eval logic:
\* the value is cached for a cache-eligible node and handed to the caller.
eval_node_return(m) ==
  LET top == m.stack[Len(m.stack)]
      kind == nodes[top.id].kind
      value == KindEval(kind, top.vals)
      popped == [m EXCEPT !.stack = SubSeq(m.stack, 1, Len(m.stack) - 1),
                          !.exec = IF cache_output(kind)
                                   THEN MapInsert(m.exec, top.id, Cached(value))
                                   ELSE m.exec]
  IN Deliver(popped, value)

SetMachine(m) ==
  /\ exec_nodes' = m.exec
  /\ stack' = m.stack
  /\ eval_pc' = m.pc
  /\ eval_result' = m.result
  /\ eval_count' = m.count
  /\ visits' = m.visits

\* (mutant) NodeGraphExecution::clear that keeps the entries.
clear_Keep(m) == m

\* NodeGraphExecution::clear
clear(m) == [m EXCEPT !.exec = << >>]

NoCalls == [n \in EvalNodeIds |-> 0]

\* Two calls were made on the same graph.
SameGraph(a, b) == a.nodes = b.nodes /\ a.output = b.output

\* NodeGraphExecution::eval_graph, up to the first eval_node.  call_graph and
\* prev record what the call started from: `reused`, an execution that still
\* holds entries; `edited`, a graph that is not the one of the call before.
eval_graph ==
  /\ eval_pc \in {"idle", "done"}
  /\ call_graph' = [nodes |-> nodes, output |-> output,
                    reused |-> exec_nodes # << >>,
                    edited |-> eval_pc = "done" /\ ~SameGraph(call_graph, [nodes |-> nodes, output |-> output])]
  /\ prev' = IF eval_pc = "done"
             THEN [result |-> eval_result,
                   same |-> SameGraph(call_graph, [nodes |-> nodes, output |-> output]),
                   reused |-> call_graph.reused, edited |-> call_graph.edited]
             ELSE prev
  /\ LET m == [clear(Machine) EXCEPT !.pc = "running", !.result = NoResult,
                                     !.count = NoCalls, !.visits = 0, !.stack = << >>]
     IN IF graph_output = NoNode
        THEN SetMachine(Finish(m, MissingOutput))
        ELSE SetMachine(eval_node(m, graph_output))
  /\ UNCHANGED gvars

\* The node's eval logic evaluates its next connected input: InputTyped::eval
\* calls eval_node on the source node.
eval_input ==
  /\ eval_pc = "running"
  /\ LET top == stack[Len(stack)]
     IN /\ top.idx \in DOMAIN nodes[top.id].inputs
        /\ SetMachine(eval_node(Machine, nodes[top.id].inputs[top.idx].connected.id.node))
  /\ UNCHANGED <<gvars, call_graph, prev>>

\* The node's eval logic has all its inputs and returns.
eval_return ==
  /\ eval_pc = "running"
  /\ stack[Len(stack)].idx \notin DOMAIN nodes[stack[Len(stack)].id].inputs
  /\ SetMachine(eval_node_return(Machine))
  /\ UNCHANGED <<gvars, call_graph, prev>>

\* NodeGraphExecution::new
new_execution ==
  /\ eval_pc = "done"
  /\ exec_nodes # << >>
  /\ exec_nodes' = << >>
  /\ UNCHANGED <<gvars, stack, eval_pc, eval_result, eval_count, visits, call_graph, prev>>

\* A literal is set on an input between two calls.
edit_literal(id, key, v) ==
  /\ eval_pc \in {"idle", "done"}
  /\ changed < MaxEdits
  /\ set_node_input(id, key, Literal(v))
  /\ UNCHANGED evars

EvalInit ==
  /\ exec_nodes = << >>
  /\ stack = << >>
  /\ eval_pc = "idle"
  /\ eval_result = NoResult
  /\ eval_count = NoCalls
  /\ visits = 0
  /\ call_graph = [nodes |-> << >>, output |-> NoNode, reused |-> FALSE, edited |-> FALSE]
  /\ prev = [result |-> NoResult, same |-> FALSE, reused |-> FALSE, edited |-> FALSE]

\* ------------------------------------------------------------ the compiler
MaxBlockStack == 1  \* blocks the caller leaves pushed before it compiles

VARIABLES
  compile,         \* the NodeGraphCompile: next_id, blocks, names, block_order, stack, compiled
  compile_result   \* what the last compile_graph returned

cvars == <<compile, compile_result>>

NoBlock == 0
NoValue == [value |-> << >>, dt |-> NoDt]

\* struct CompiledValue
CompiledValue(value, dt) == [value |-> value, dt |-> dt]

\* enum NodeOutput
LazyCode(prefix, code, dt) == [tag |-> "LazyCode", prefix |-> prefix, code |-> code, dt |-> dt]
Compiled(v) == [tag |-> "Compiled", value |-> v]

\* CodeBlock::default
NewCodeBlock == [code |-> << >>, variables |-> << >>, outputs |-> << >>, counter |-> 0]

\* CodeBlock::append
CodeBlock_append(b, code) == [b EXCEPT !.code = Append(@, code)]

\* A statement: `let <name> = <code>;`, or text appended as it is.
Let(name, code) == [let |-> name, code |-> code]
Raw(text) == [let |-> << >>, code |-> <<text>>]

\* (mutant) add_local that names the variable and leaves the counter alone.
add_local_NoCount(b, prefix, code, dt) ==
  LET name == <<prefix, "_", ToString(b.counter + 1)>>
  IN [block |-> [CodeBlock_append(b, Let(name, code))
                   EXCEPT !.variables = MapInsert(@, name, dt)],
      name |-> name]

\* CodeBlock::add_local: [block, name]; the name is <prefix>_<counter>.
add_local(b, prefix, code, dt) ==
  LET idx == b.counter + 1
      name == <<prefix, "_", ToString(idx)>>
  IN [block |-> [CodeBlock_append([b EXCEPT !.counter = idx], Let(name, code))
                   EXCEPT !.variables = MapInsert(@, name, dt)],
      name |-> name]

\* CodeBlock::add_output
CodeBlock_add_output(b, id, prefix, code, dt) ==
  [b EXCEPT !.outputs = MapInsert(@, id, LazyCode(prefix, code, dt))]

\* (mutant) resolve_output that leaves the entry LazyCode.
CodeBlock_resolve_output_NoMark(b, id) ==
  IF id \notin DOMAIN b.outputs THEN [ok |-> FALSE, block |-> b, value |-> NoValue]
  ELSE LET o == b.outputs[id]
       IN IF o.tag = "LazyCode"
          THEN LET l == add_local(b, o.prefix, o.code, o.dt)
               IN [ok |-> TRUE, block |-> l.block, value |-> CompiledValue(l.name, o.dt)]
          ELSE [ok |-> TRUE, block |-> b, value |-> o.value]

\* (mutant) resolve_output whose first call returns the expression itself.
CodeBlock_resolve_output_Inline(b, id) ==
  IF id \notin DOMAIN b.outputs THEN [ok |-> FALSE, block |-> b, value |-> NoValue]
  ELSE LET o == b.outputs[id]
       IN IF o.tag = "LazyCode"
          THEN LET l == add_local(b, o.prefix, o.code, o.dt)
                   v == CompiledValue(l.name, o.dt)
               IN [ok |-> TRUE,
                   block |-> [l.block EXCEPT !.outputs = MapInsert(@, id, Compiled(v))],
                   value |-> CompiledValue(o.code, o.dt)]
          ELSE [ok |-> TRUE, block |-> b, value |-> o.value]

\* (mutant) resolve_output that answers an unregistered output with the name
\* the next `let` of the block would get.
CodeBlock_resolve_output_Forward(b, id) ==
  IF id \notin DOMAIN b.outputs
  THEN [ok |-> TRUE, block |-> b,
        value |-> CompiledValue(<<"scalar_math", "_", ToString(b.counter + 1)>>, "F32")]
  ELSE LET o == b.outputs[id]
       IN IF o.tag = "LazyCode"
          THEN LET l == add_local(b, o.prefix, o.code, o.dt)
                   v == CompiledValue(l.name, o.dt)
               IN [ok |-> TRUE,
                   block |-> [l.block EXCEPT !.outputs = MapInsert(@, id, Compiled(v))],
                   value |-> v]
          ELSE [ok |-> TRUE, block |-> b, value |-> o.value]

\* CodeBlock::resolve_output: [ok, block, value]
CodeBlock_resolve_output(b, id) ==
  IF id \notin DOMAIN b.outputs THEN [ok |-> FALSE, block |-> b, value |-> NoValue]
  ELSE LET o == b.outputs[id]
       IN IF o.tag = "LazyCode"
          THEN LET l == add_local(b, o.prefix, o.code, o.dt)
                   v == CompiledValue(l.name, o.dt)
               IN [ok |-> TRUE,
                   block |-> [l.block EXCEPT !.outputs = MapInsert(@, id, Compiled(v))],
                   value |-> v]
          ELSE [ok |-> TRUE, block |-> b, value |-> o.value]

\* CodeBlock::clear
CodeBlock_clear(b) == NewCodeBlock

\* The DataTypes CompiledValue::convert matches on.
ConcreteTypes == {"I32", "U32", "F32", "Vec2", "Vec3", "Vec4", "Mat2", "Mat3", "Mat4"}
DynamicTypes == {"Dynamic", "DynamicVector", "DynamicMatrix"}

\* A text is the sequence of the pieces format! puts together.
Wrap(pre, text, post) == <<pre>> \o text \o <<post>>

\* The constructor each arm of convert writes for a scalar target.
ScalarCast(to_dt) ==
  CASE to_dt = "I32" -> "i32(" [] to_dt = "U32" -> "u32(" [] OTHER -> "f32("

\* CompiledValue::convert, the arms that format a new text.
convert_text(from, to_dt, text) ==
  CASE from \in {"I32", "U32", "F32"} /\ to_dt \in {"I32", "U32", "F32"} ->
         Wrap(ScalarCast(to_dt), text, ")")
    [] from \in {"I32", "U32", "F32"} /\ to_dt = "Vec2" -> Wrap("vec2<f32>(", text, ", 0.)")
    [] from \in {"I32", "U32", "F32"} /\ to_dt = "Vec3" -> Wrap("vec3<f32>(", text, ", 0., 0.)")
    [] from \in {"I32", "U32", "F32"} /\ to_dt = "Vec4" -> Wrap("vec4<f32>(", text, ", 0., 0., 1.)")
    [] from \in {"Vec2", "Vec3", "Vec4"} /\ to_dt \in {"I32", "U32", "F32"} ->
         Wrap(ScalarCast(to_dt), text, ".x)")
    [] from = "Vec2" /\ to_dt = "Vec3" -> Wrap("vec3<f32>(", text, ".xy, 0.)")
    [] from = "Vec2" /\ to_dt = "Vec4" -> Wrap("vec4<f32>(", text, ".xy, 0., 1.)")
    [] from = "Vec3" /\ to_dt = "Vec2" -> Wrap("vec2<f32>(", text, ".xy)")
    [] from = "Vec3" /\ to_dt = "Vec4" -> Wrap("vec4<f32>(", text, ".xyz, 1.)")
    [] from = "Vec4" /\ to_dt = "Vec2" -> Wrap("vec2<f32>(", text, ".xy)")
    [] from = "Vec4" /\ to_dt = "Vec3" -> Wrap("vec4<f32>(", text, ".xyz)")
    [] from \in {"Mat3", "Mat4"} /\ to_dt = "Mat2" ->
         <<"mat2x2<f32>(">> \o text \o <<"[0].xy, ">> \o text \o <<"[1].xy)">>
    [] from = "Mat4" /\ to_dt = "Mat3" ->
         <<"mat3x3<f32>(">> \o text \o <<"[0].xyz, ">> \o text \o <<"[1].xyz, ">>
           \o text \o <<"[2].xyz)">>
    [] OTHER -> << >>

\* CompiledValue::convert, the arm the match takes: "same", "dynamic" (a
\* dynamic source, an error), "noop" (a dynamic target the source's arms
\* list), "format" or "error" (the two promotions named and the last arm).
convert_arm(from, to_dt) ==
  IF from = to_dt THEN "same"
  ELSE IF from \in DynamicTypes THEN "dynamic"
  ELSE IF from \in {"I32", "U32", "F32", "Vec2", "Vec3", "Vec4"}
  THEN IF to_dt \in {"Dynamic", "DynamicVector"} THEN "noop"
       ELSE IF to_dt \in {"I32", "U32", "F32", "Vec2", "Vec3", "Vec4"} THEN "format"
       ELSE "error"
  ELSE IF to_dt \in {"Dynamic", "DynamicMatrix"} THEN "noop"
       ELSE IF (from \in {"Mat3", "Mat4"} /\ to_dt = "Mat2") \/ (from = "Mat4" /\ to_dt = "Mat3")
       THEN "format"
       ELSE "error"

\* CompiledValue::convert, the body of the arm taken: [ok, value]; the text
\* and the type are assigned only by an arm that formats.
convert_match(arm, v, to_dt) ==
  IF arm \in {"same", "noop"} THEN [ok |-> TRUE, value |-> v]
  ELSE IF arm = "format"
  THEN [ok |-> TRUE, value |-> [value |-> convert_text(v.dt, to_dt, v.value), dt |-> to_dt]]
  ELSE [ok |-> FALSE, value |-> v]

\* (mutant) convert that sets the target type also when it returns an error.
convert_SetsTypeOnError(v, to_dt) ==
  LET r == convert_match(convert_arm(v.dt, to_dt), v, to_dt)
  IN IF r.ok THEN r ELSE [ok |-> FALSE, value |-> [v EXCEPT !.dt = to_dt]]

\* (mutant) convert that gives the value the dynamic type it was converted to.
convert_RetypesDynamic(v, to_dt) ==
  LET r == convert_match(convert_arm(v.dt, to_dt), v, to_dt)
  IN IF r.ok THEN [ok |-> TRUE, value |-> [r.value EXCEPT !.dt = to_dt]] ELSE r

\* CompiledValue::convert: [ok, value]
convert(v, to_dt) == convert_match(convert_arm(v.dt, to_dt), v, to_dt)

\* What a step of the compiler returns: [ok, c, err, value].
CErr(c, msg) == [ok |-> FALSE, c |-> c, err |-> msg, value |-> NoValue]
COk(c, v) == [ok |-> TRUE, c |-> c, err |-> "", value |-> v]

\* NodeGraphCompile::new; `dispatched` counts, per NodeId, the calls of a node
\* kind's compile logic this compiler has made.
NewCompile ==
  [next_id |-> 0, blocks |-> << >>, names |-> << >>, block_order |-> << >>,
   stack |-> << >>, compiled |-> {}, dispatched |-> << >>]

\* NodeGraphCompile::define_block: [c, id]
define_block(c, name) ==
  IF name \in DOMAIN c.names THEN [c |-> c, id |-> c.names[name]]
  ELSE LET id == c.next_id + 1
       IN [c |-> [c EXCEPT !.next_id = id,
                           !.blocks = MapInsert(@, id, NewCodeBlock),
                           !.block_order = Append(@, id),
                           !.names = MapInsert(@, name, id)],
           id |-> id]

\* NodeGraphCompile::current_block: [ok, id]
current_block(c) ==
  IF c.stack # << >> /\ c.stack[Len(c.stack)] \in DOMAIN c.blocks
  THEN [ok |-> TRUE, id |-> c.stack[Len(c.stack)]]
  ELSE [ok |-> FALSE, id |-> NoBlock]

\* NodeGraphCompile::push
push(c, id) == [c EXCEPT !.stack = Append(@, id)]

\* NodeGraphCompile::push_new_block: [c, id]
push_new_block(c, name) ==
  LET d == define_block(c, name) IN [c |-> push(d.c, d.id), id |-> d.id]

\* (mutant) pop that leaves the block on the stack.
pop_Keep(c, expect) ==
  [ok |-> (IF c.stack = << >> THEN NoBlock ELSE c.stack[Len(c.stack)]) = expect,
   c |-> c,
   id |-> IF c.stack = << >> THEN NoBlock ELSE c.stack[Len(c.stack)]]

\* (mutant) pop that takes None for "whatever is on top".
pop_Lenient(c, expect) ==
  LET id == IF c.stack = << >> THEN NoBlock ELSE c.stack[Len(c.stack)]
      c1 == IF c.stack = << >> THEN c
            ELSE [c EXCEPT !.stack = SubSeq(@, 1, Len(@) - 1)]
  IN [ok |-> id = expect \/ expect = NoBlock, c |-> c1, id |-> id]

\* NodeGraphCompile::pop: [ok, c, id]; the block is popped also when it is
\* not the expected one.
pop(c, expect) ==
  LET id == IF c.stack = << >> THEN NoBlock ELSE c.stack[Len(c.stack)]
      c1 == IF c.stack = << >> THEN c
            ELSE [c EXCEPT !.stack = SubSeq(@, 1, Len(@) - 1)]
  IN [ok |-> id = expect, c |-> c1, id |-> id]

\* NodeGraphCompile::add_output
add_output(c, id, prefix, code, dt) ==
  LET cb == current_block(c)
  IN IF ~cb.ok THEN CErr(c, "No current block on stack")
     ELSE COk([c EXCEPT !.blocks[cb.id] = CodeBlock_add_output(@, id, prefix, code, dt)], NoValue)

\* NodeGraphCompile::append_code
append_code(c, name, code) ==
  IF name \in DOMAIN c.names /\ c.names[name] \in DOMAIN c.blocks
  THEN COk([c EXCEPT !.blocks[c.names[name]] = CodeBlock_append(@, code)], NoValue)
  ELSE CErr(c, "Undefined block")

\* NodeGraphCompile::clear
NodeGraphCompile_clear(c) ==
  [c EXCEPT !.blocks = [b \in DOMAIN c.blocks |-> CodeBlock_clear(c.blocks[b])]]

\* NodeGraphCompile::dump: the statements of all blocks in creation order.
RECURSIVE dump_from(_, _)
dump_from(c, i) ==
  IF i > Len(c.block_order) THEN << >>
  ELSE c.blocks[c.block_order[i]].code \o dump_from(c, i + 1)

\* (mutant) dump that starts with the block created last.
dump_Reversed(c) ==
  dump_from([c EXCEPT !.block_order =
               [i \in 1..Len(@) |-> @[Len(@) + 1 - i]]], 1)

dump(c) == dump_from(c, 1)

RECURSIVE compile_node(_, _)
RECURSIVE resolve_output(_, _)
RECURSIVE InputTyped_compile(_, _, _)
RECURSIVE FragmentOutputNode_compile(_, _)
RECURSIVE ScalarMath_compile(_, _)

\* node.compile(graph, self, id) is about to be called: one more dispatch.
Dispatch(c, id) ==
  [c EXCEPT !.dispatched =
     MapInsert(@, id, IF id \in DOMAIN c.dispatched THEN c.dispatched[id] + 1 ELSE 1)]

\* (mutant) compile_node that takes the mark back when the compile logic fails.
compile_node_Unmark(c, id) ==
  LET c1 == Dispatch([c EXCEPT !.compiled = @ \cup {id}], id)
      r == IF nodes[id].kind = "Fragment" THEN FragmentOutputNode_compile(c1, id)
           ELSE ScalarMath_compile(c1, id)
  IN IF id \in c.compiled THEN COk(c, NoValue)
     ELSE IF id \notin DOMAIN nodes THEN CErr(c, "Missing node")
     ELSE IF r.ok THEN r
     ELSE [r EXCEPT !.c.compiled = @ \ {id}]

\* NodeGraphCompile::compile_node: the node is marked before its kind's
\* compile logic runs, and stays marked when that fails.
compile_node(c, id) ==
  LET c1 == [c EXCEPT !.compiled = @ \cup {id}]
  IN IF id \in c.compiled THEN COk(c1, NoValue)
     ELSE IF id \notin DOMAIN nodes THEN CErr(c1, "Missing node")
     ELSE IF nodes[id].kind = "Fragment" THEN FragmentOutputNode_compile(Dispatch(c1, id), id)
     ELSE ScalarMath_compile(Dispatch(c1, id), id)

\* NodeGraphCompile::resolve_output, after compile_node returned r: the
\* output is resolved in the current block.
resolve_in_current_block(r, id) ==
  IF ~r.ok THEN r
  ELSE LET cb == current_block(r.c)
       IN IF ~cb.ok THEN CErr(r.c, "No current block on stack")
          ELSE LET o == CodeBlock_resolve_output(r.c.blocks[cb.id], id)
               IN IF ~o.ok THEN CErr(r.c, "Tried to resolve an unknown output")
                  ELSE COk([r.c EXCEPT !.blocks[cb.id] = o.block], o.value)

\* NodeGraphCompile::resolve_output
resolve_output(c, id) == resolve_in_current_block(compile_node(c, id.node), id)

\* InputTyped::compile, after the value r was found: it is converted to the
\* port's type.
convert_to_port(r, ty) ==
  IF ~r.ok THEN r
  ELSE LET v == convert(r.value, data_type(ty))
       IN IF v.ok THEN COk(r.c, v.value) ELSE CErr(r.c, "Conversion not supported")

\* InputTyped::compile: the connected output's variable, or the literal, in
\* the port's type.
InputTyped_compile(c, ty, port) ==
  convert_to_port(
    IF port.connected # NoConn
    THEN resolve_output(c, port.connected.id)
    ELSE COk(c, CompiledValue(<<"literal", port.value.dt, ToString(port.value.x)>>, port.value.dt)),
    ty)

\* FragmentOutputNode::compile
FragmentOutputNode_compile(c, id) ==
  LET a1 == append_code(c, "imports", Raw("imports"))
  IN IF ~a1.ok THEN a1
     ELSE LET a2 == append_code(a1.c, "bindings", Raw("bindings"))
     IN IF ~a2.ok THEN a2
     ELSE LET p == push_new_block(a2.c, "fragment")
              head == [p.c EXCEPT !.blocks[p.id] = CodeBlock_append(@, Raw("fn fragment"))]
              color == InputTyped_compile(head, "Color", nodes[id].inputs[0])
     IN IF ~color.ok THEN color
     ELSE LET cb == current_block(color.c)
     IN IF ~cb.ok THEN CErr(color.c, "No current block on stack")
     ELSE LET body == [color.c EXCEPT !.blocks[cb.id] =
                         CodeBlock_append(
                           CodeBlock_append(@, [let |-> << >>,
                                                code |-> Wrap("base_color = ", color.value.value, ";")]),
                           Raw("return out"))]
              q == pop(body, p.id)
     IN IF q.ok THEN COk(q.c, NoValue) ELSE CErr(q.c, "Stack corruption detected.")

\* The compile logic of Scalar Math: its inputs are resolved, then its output
\* is registered as lazy code.
ScalarMath_compile(c, id) ==
  LET a == InputTyped_compile(c, "f32", nodes[id].inputs[0])
  IN IF ~a.ok THEN a
     ELSE LET b == InputTyped_compile(a.c, "f32", nodes[id].inputs[1])
     IN IF ~b.ok THEN b
     ELSE add_output(b.c, OutputId(id, 0), "scalar_math",
                     <<"(">> \o a.value.value \o <<" + ">> \o b.value.value \o <<")">>, "F32")

\* NodeGraphCompile::compile_graph
compile_graph ==
  /\ LET r == IF graph_output = NoNode
              THEN CErr(compile, "Graph missing output node")
              ELSE compile_node(compile, graph_output)
     IN /\ compile' = r.c
        /\ compile_result' = IF r.ok THEN Ok(NoValue) ELSE Err(r.err)
  /\ UNCHANGED <<gvars, evars>>

\* The caller defines a block before it compiles.
caller_define_block(name) ==
  /\ name \notin DOMAIN compile.names
  /\ compile' = define_block(compile, name).c
  /\ UNCHANGED <<gvars, evars, compile_result>>

\* The caller pushes a block for the code of the graph's nodes.
caller_push_new_block(name) ==
  /\ Len(compile.stack) < MaxBlockStack
  /\ compile' = push_new_block(compile, name).c
  /\ UNCHANGED <<gvars, evars, compile_result>>

\* The caller clears the blocks.
caller_clear ==
  /\ compile' = NodeGraphCompile_clear(compile)
  /\ compile' # compile
  /\ UNCHANGED <<gvars, evars, compile_result>>

CompileInit ==
  /\ compile = NewCompile
  /\ compile_result = NoResult

\* --------------------------------------------------- calls of pure functions
VARIABLES
  fn_call,      \* the last call made by the caller: its name and arguments
  fn_ret,       \* what that call returned
  pushed,       \* the caller's push_new_block calls that await their pop
  registry,     \* NodeRegistryInner: nodes, name_to_id, categories
  executions    \* the NodeGraphExecutions that evaluate one graph concurrently

\* Option<NodeDefinition>
NoneDef == [none |-> TRUE]

MaxExecutions == 2

\* NodeGraphExecution::new, as the record Machine describes it.
NewMachine ==
  [exec |-> << >>, stack |-> << >>, pc |-> "idle", result |-> NoResult,
   count |-> NoCalls, visits |-> 0]

fvars == <<fn_call, fn_ret, pushed, registry, executions>>

NoCall == [op |-> "none"]

FnInit ==
  /\ fn_call = NoCall
  /\ fn_ret = NoCall
  /\ pushed = << >>
  /\ registry = [nodes |-> << >>, name_to_id |-> << >>, categories |-> << >>]
  /\ executions = [e \in 1..MaxExecutions |-> NewMachine]


\* CompiledValue::convert is called on a value of any type; its text is a
\* literal or a generated variable name.
call_convert ==
  \E text \in {<<"1.0">>, <<"out", "_", "1">>},
     from \in ConcreteTypes \cup DynamicTypes, to_dt \in ConcreteTypes \cup DynamicTypes :
    /\ fn_call' = [op |-> "convert", v |-> CompiledValue(text, from), to_dt |-> to_dt]
    /\ fn_ret' = convert(CompiledValue(text, from), to_dt)

\* DataType::is_compatible is called on two types.
call_is_compatible ==
  \E a \in ConcreteTypes, b \in ConcreteTypes :
    /\ fn_call' = [op |-> "is_compatible", self |-> a, other |-> b]
    /\ fn_ret' = is_compatible(a, b)

\* InputTyped::set_input is called with a Connect to an output of type `odt`;
\* the Input names that type (NodeGraph::connect) or none (Input::from(NodeId)).
call_set_input ==
  \E ty \in {"f32", "Color"}, odt \in ConcreteTypes, declared \in BOOLEAN, was \in BOOLEAN :
    LET port == IF was THEN [NewPort(ty) EXCEPT !.connected = [id |-> OutputId(2, 0), dt |-> NoDt]]
                ELSE NewPort(ty)
        input == Connect(OutputId(1, 0), IF declared THEN odt ELSE NoDt)
    IN /\ fn_call' = [op |-> "set_input", ty |-> ty, odt |-> odt, port |-> port, input |-> input]
       /\ fn_ret' = InputTyped_set_input(ty, port, input)

\* ------------------------------------------------------ graphs to evaluate
\* The literal each input holds when it is not connected.
PortLiteral(kind, i) ==
  IF kind = "ScalarMath" THEN MkValue("F32", i + 1) ELSE MkValue("Vec4", 1)

\* The states of input i of a node of `kind`: its literal, or connected (as
\* Input::from(NodeId) connects: output 0, no declared type) to a node.
PortStates(kind, i, ids) ==
  {[value |-> PortLiteral(kind, i), connected |-> NoConn]}
    \cup {[value |-> PortLiteral(kind, i),
           connected |-> [id |-> OutputId(n, 0), dt |-> NoDt]] : n \in ids}

NodeStates(ids) ==
  UNION {{[kind |-> kind, inputs |-> inp] :
            inp \in {f \in [0..(NumInputs(kind) - 1) -> UNION {PortStates(kind, i, ids) : i \in 0..1}] :
                       \A i \in DOMAIN f : f[i] \in PortStates(kind, i, ids)}} :
         kind \in Kinds}

\* The index that set_node_input builds for these nodes.
IndexOf(ns) ==
  [k \in {k \in [node : DOMAIN ns, idx : 0..1] :
            /\ k.idx \in DOMAIN ns[k.node].inputs
            /\ ns[k.node].inputs[k.idx].connected # NoConn}
     |-> ns[k.node].inputs[k.idx].connected.id]

\* Graphs of 1..MaxEvalNodes nodes built with add and set_node_input; the
\* output is unset, the last node added, or a node that is not stored.
GraphInit(ids) ==
  /\ \E n \in 1..Cardinality(ids) :
       /\ nodes \in [1..n -> NodeStates(ids)]
       /\ output \in {NoNode, n} \cup ({n + 1} \cap ids)
  /\ connections = IndexOf(nodes)
  /\ changed = 0
  /\ last = [op |-> "new", id |-> NoNode, ret |-> "Ok", aux |-> {}]

\* ------------------------------------------------- the editing specification
\* NodeGraph::new, and everything else as it is constructed
Init ==
  /\ nodes = << >>
  /\ connections = << >>
  /\ output = NoNode
  /\ changed = 0
  /\ last = [op |-> "new", id |-> NoNode, ret |-> "Ok", aux |-> {}]
  /\ EvalInit /\ CompileInit /\ FnInit

Next ==
  \/ \E id \in NodeIds, kind \in Kinds : add(id, kind) /\ UNCHANGED <<evars, cvars, fvars>>
  \/ \E id \in NodeIds : remove(id) /\ UNCHANGED <<evars, cvars, fvars>>
  \/ \E id \in NodeIds, key \in Keys, value \in InputValues :
       set_node_input(id, key, value) /\ UNCHANGED <<evars, cvars, fvars>>
  \/ \E o \in {NoNode} \cup NodeIds : set_output(o) /\ UNCHANGED <<evars, cvars, fvars>>

vars == <<gvars, evars, cvars, fvars>>

Spec == Init /\ [][Next]_vars

\* ---------------------------------------------- the evaluation specification
\* One execution, called again and again on a graph that does not change.
NextEval ==
  \/ eval_graph /\ UNCHANGED <<cvars, fvars>>
  \/ eval_input /\ UNCHANGED <<cvars, fvars>>
  \/ eval_return /\ UNCHANGED <<cvars, fvars>>

InitEval == GraphInit(EvalNodeIds) /\ EvalInit /\ CompileInit /\ FnInit

SpecEval == InitEval /\ [][NextEval]_vars

\* --------------------------------------------------- the reuse specification
\* One execution called on a graph whose literals are edited between calls;
\* the caller may also start over with a new execution.
NextReuse ==
  \/ NextEval
  \/ new_execution /\ UNCHANGED <<cvars, fvars>>
  \/ \E id \in NodeIds, i \in 0..MaxKeyIdx, v \in LiteralValues :
       edit_literal(id, KeyIdx(i), v) /\ UNCHANGED <<cvars, fvars>>

\* Every graph of up to MaxNodes nodes, with everything else as constructed.
InitGraphs == GraphInit(NodeIds) /\ EvalInit /\ CompileInit /\ FnInit

SpecReuse == InitGraphs /\ [][NextReuse]_vars

\* ------------------------------------------------- the compile specification
\* One execution and one compiler working on a graph that does not change.
BlockNames == {"imports", "bindings"}

NextCompile ==
  \/ NextEval
  \/ compile_graph /\ UNCHANGED fvars
  \/ \E name \in BlockNames : caller_define_block(name) /\ UNCHANGED fvars
  \/ caller_push_new_block("main") /\ UNCHANGED fvars
  \/ caller_clear /\ UNCHANGED fvars

SpecCompile == InitGraphs /\ [][NextCompile]_vars

\* --------------------------------------------------- the blocks specification
\* One compiler driven by a caller: it defines and pushes blocks, compiles
\* the graph, resolves outputs, pops what it pushed (or something else),
\* and clears the blocks.
MaxPushed == 2      \* blocks on the stack when the caller pushes one more: < MaxPushed
MaxBlockNodes == 2  \* node ids of the graphs handed to this compiler: 1..MaxBlockNodes

NoFrame == [id |-> NoBlock, stack |-> << >>, current |-> NoBlock]

\* The stack of a compiler, and the id of its current block (NoBlock: none).
Top(c) == IF c.stack = << >> THEN NoBlock ELSE c.stack[Len(c.stack)]

\* A call that is not one of the caller's pushes and pops fits between a
\* push and its pop only if it leaves the stack as it found it.
KeepPushed(c1, c2) == IF c2.stack = c1.stack THEN pushed ELSE << >>

\* The caller defines its blocks before it pushes or compiles anything.
block_define_block(name) ==
  /\ compile.stack = << >> /\ compile.compiled = {}
  /\ caller_define_block(name)
  /\ fn_call' = NoCall /\ fn_ret' = NoCall
  /\ UNCHANGED <<pushed, registry, executions>>

block_push_new_block(name) ==
  /\ Len(compile.stack) < MaxPushed
  /\ compile' = push_new_block(compile, name).c
  /\ fn_call' = NoCall /\ fn_ret' = NoCall
  /\ pushed' = Append(pushed, [id |-> push_new_block(compile, name).id,
                                stack |-> compile.stack,
                                current |-> current_block(compile).id])
  /\ UNCHANGED <<gvars, evars, compile_result, registry, executions>>

\* pop(expect), with expect None, the block on top, or the block defined
\* first; `frame` is the caller's last open push when expect is the id that
\* push returned.
block_pop(expect) ==
  LET q == pop(compile, expect)
      matched == pushed # << >> /\ pushed[Len(pushed)].id = expect
  IN /\ expect \in {NoBlock, Top(compile), 1}
     /\ compile' = q.c
     /\ fn_call' = [op |-> "pop", expect |-> expect, stack |-> compile.stack,
                    frame |-> IF matched THEN pushed[Len(pushed)] ELSE NoFrame]
     /\ fn_ret' = [ok |-> q.ok, id |-> q.id]
     /\ pushed' = IF matched THEN SubSeq(pushed, 1, Len(pushed) - 1) ELSE << >>
     /\ UNCHANGED <<gvars, evars, compile_result, registry, executions>>

\* resolve_output(id); the call is recorded with the current block as it
\* was before the call.
block_resolve_output(id) ==
  \E r \in {resolve_output(compile, id)} :
    /\ compile' = r.c
    /\ fn_call' = [op |-> "resolve_output", id |-> id,
                   block |-> IF current_block(compile).ok
                             THEN compile.blocks[current_block(compile).id]
                             ELSE NewCodeBlock]
    /\ fn_ret' = [ok |-> r.ok, value |-> r.value]
    /\ pushed' = KeepPushed(compile, r.c)
    /\ UNCHANGED <<gvars, evars, compile_result, registry, executions>>

\* compile_graph; the call is recorded with the stack as it was before it.
block_compile_graph ==
  /\ compile_graph
  /\ fn_call' = [op |-> "compile_graph", stack |-> compile.stack]
  /\ fn_ret' = compile_result'
  /\ pushed' = KeepPushed(compile, compile')
  /\ UNCHANGED <<registry, executions>>

block_clear ==
  /\ caller_clear
  /\ fn_call' = [op |-> "clear"] /\ fn_ret' = NoCall
  /\ UNCHANGED <<pushed, registry, executions>>

NextBlocks ==
  \/ \E name \in BlockNames : block_define_block(name)
  \/ \E name \in {"main"} : block_push_new_block(name)
  \/ \E expect \in 0..(Cardinality(BlockNames) + 2) : block_pop(expect)
  \/ \E id \in (1..MaxBlockNodes) : block_resolve_output(OutputId(id, 0))
  \/ block_compile_graph
  \/ block_clear

\* The graphs handed to this compiler have their last node as output.
InitBlocks ==
  /\ GraphInit(1..MaxBlockNodes) /\ output = Len(nodes)
  /\ EvalInit /\ CompileInit /\ FnInit

SpecBlocks == InitBlocks /\ [][NextBlocks]_vars

\* ---------------------------------------------------- the ports specification
\* The inputs of the nodes of a graph are set and read by a caller; each call
\* is recorded with the port as it was before the call.
MaxPortNodes == 1   \* nodes of the graphs whose ports are set: 1..MaxPortNodes

MaxPortEdits == 2   \* set_node_input calls that change the graph: changed < MaxPortEdits

port_set_node_input(id, key, value) ==
  /\ changed < MaxPortEdits
  /\ set_node_input(id, key, value)
  /\ fn_call' = [op |-> "set_node_input", id |-> id, key |-> key, value |-> value]
  /\ fn_ret' = last'.ret
  /\ UNCHANGED <<evars, cvars, pushed, registry, executions>>

port_get_node_input(id, key) ==
  /\ fn_call' = [op |-> "get_node_input", id |-> id, key |-> key, value |-> Disconnect]
  /\ fn_ret' = get_node_input(id, key)
  /\ UNCHANGED <<gvars, evars, cvars, pushed, registry, executions>>

NextPorts ==
  \/ \E id \in NodeIds, key \in Keys, value \in InputValues : port_set_node_input(id, key, value)
  \/ \E id \in NodeIds, key \in Keys : port_get_node_input(id, key)

InitPorts ==
  /\ GraphInit(1..MaxPortNodes) /\ output = NoNode
  /\ EvalInit /\ CompileInit /\ FnInit

SpecPorts == InitPorts /\ [][NextPorts]_vars

\* -------------------------------------------------- the values specification
\* The functions of the value layer, each called on every input in its range.
NextValues ==
  \/ call_convert /\ UNCHANGED <<gvars, evars, cvars, pushed, registry, executions>>
  \/ call_is_compatible /\ UNCHANGED <<gvars, evars, cvars, pushed, registry, executions>>
  \/ call_set_input /\ UNCHANGED <<gvars, evars, cvars, pushed, registry, executions>>

SpecValues == Init /\ [][NextValues]_vars

\* ------------------------------------------------------------------ claims
\* The ports of stored nodes that are in the Connected state.
ConnectedPorts ==
  {InputId(n, i) : n \in DOMAIN nodes, i \in 0..MaxKeyIdx} \cap
  {k \in [node : DOMAIN nodes, idx : 0..MaxKeyIdx] :
     /\ k.idx \in DOMAIN nodes[k.node].inputs
     /\ nodes[k.node].inputs[k.idx].connected # NoConn}

PortTarget(k) == nodes[k.node].inputs[k.idx].connected.id

\* C1: the connection index maps an InputId to OutputId o if and only if that
\* input port of that node is in the Connected state pointing at o.
C1_IndexAgreesWithNodes ==
  /\ \A k \in DOMAIN connections : k \in ConnectedPorts /\ PortTarget(k) = connections[k]
  /\ \A k \in ConnectedPorts : k \in DOMAIN connections /\ connections[k] = PortTarget(k)

\* C2: right after remove(id), no entry of the connection index has id as the
\* node of its input or of its output, and no stored node has an input in the
\* Connected state pointing at an output of id.
C2_RemoveSevers ==
  last.op = "remove" =>
    /\ \A k \in DOMAIN connections : k.node # last.id /\ connections[k].node # last.id
    /\ \A k \in ConnectedPorts : PortTarget(k).node # last.id

\* C2 witness: remove(id) has just removed a stored node that an input of
\* another stored node was connected to.
C2_Witness ==
  /\ last.op = "remove" /\ last.ret = TRUE
  /\ \E k \in last.aux : k.node \in DOMAIN nodes /\ nodes[k.node].inputs[k.idx].connected = NoConn

\* C3: every entry of the connection index has both endpoints in the graph.
C3_EndpointsExist ==
  \A k \in DOMAIN connections :
    k.node \in DOMAIN nodes /\ connections[k].node \in DOMAIN nodes

\* C4: the designated output NodeId, if set, names a stored node.
C4_OutputExists == output # NoNode => output \in DOMAIN nodes

\* ---------------------------------------------------- claims: the evaluator
\* The nodes the connected inputs of node n point at.
Succ(n) ==
  IF n \notin DOMAIN nodes THEN {}
  ELSE {nodes[n].inputs[i].connected.id.node :
          i \in {j \in DOMAIN nodes[n].inputs : nodes[n].inputs[j].connected # NoConn}}

RECURSIVE Closure(_, _)
Closure(S, k) ==
  IF k = 0 THEN S ELSE Closure(S \cup UNION {Succ(n) : n \in S}, k - 1)

\* The node ids a traversal from the ids in S can get to (S included).
Reach(S) == Closure(S, MaxEvalNodes)

\* The node ids a traversal from the designated output can get to.
Reachable == IF output = NoNode THEN {} ELSE Reach({output})

\* Node n has an input that transitively connects back to its own output.
OnCycle(n) == n \in Reach(Succ(n))

CachedNodes == {n \in DOMAIN nodes : cache_output(nodes[n].kind)}

\* The diamond of the evaluator's test: node 1 = 1 + 2, node 2 = node 1 + 2,
\* node 3 = node 1 + node 2, node 3 the output.
ToNode(n) == [id |-> OutputId(n, 0), dt |-> NoDt]

DiamondNodes ==
  [n \in 1..3 |->
     [kind |-> "ScalarMath",
      inputs |-> [i \in 0..1 |->
         [value |-> PortLiteral("ScalarMath", i),
          connected |-> IF n >= 2 /\ i = 0 THEN ToNode(1)
                        ELSE IF n = 3 /\ i = 1 THEN ToNode(2)
                        ELSE NoConn]]]]

\* C5: within one eval_graph call the eval logic of a cache-eligible node is
\* invoked at most once, exactly once for a node with an entry in the
\* node-state map, however many inputs are connected to it; the diamond, whose
\* node 1 is reached twice, evaluates each node once and returns 8.0.
C5_CachedEvaluatedOnce ==
  /\ \A n \in CachedNodes :
       /\ eval_count[n] <= 1
       /\ n \in DOMAIN exec_nodes => eval_count[n] = 1
  /\ (eval_pc = "done" /\ nodes = DiamondNodes /\ output = 3) =>
       /\ eval_result = Ok(MkValue("F32", 8))
       /\ \A n \in 1..3 : eval_count[n] = 1

\* C5 witness: the diamond has been evaluated; eval_node ran four times and
\* the eval logic of node 1, visited twice, ran once.
C5_Witness ==
  /\ eval_pc = "done" /\ nodes = DiamondNodes /\ output = 3
  /\ visits = 4 /\ eval_count[1] = 1
  /\ exec_nodes[1] = Cached(MkValue("F32", 3))

\* C6: when the traversal from the output gets to a cache-eligible node that
\* has an input transitively connected back to its own output (every node on
\* the way being stored), the call ends, and it ends with an error: it neither
\* recurses without bound nor returns a value.
C6_CycleEndsInError ==
  (/\ Reachable \subseteq DOMAIN nodes
   /\ \E n \in Reachable \cap CachedNodes : OnCycle(n)) =>
    /\ eval_pc # "overflow"
    /\ eval_pc = "done" => eval_result.tag = "Err"

\* C7: every eval_graph call makes finitely many node visits and then returns
\* a value or an error; the recursion never runs away.
C7_EvalTerminates ==
  /\ eval_pc # "overflow"
  /\ eval_pc = "done" => eval_result.tag \in {"Ok", "Err"}

\* C8: a call of eval_graph on the graph the call before ran on returns what
\* that call returned, whether the execution was reused or new and whether the
\* earlier call returned a value or an error; so a call on a reused execution
\* after a literal was changed returns what a new execution returns for the
\* modified graph.
C8_SameGraphSameResult ==
  (eval_pc = "done" /\ prev.result # NoResult /\ prev.same) => eval_result = prev.result

\* C8 witness: a call on a new execution has returned the value that the call
\* before returned on an execution still holding the entries of a call made
\* before a literal of the graph was changed.
C8_Witness ==
  /\ eval_pc = "done" /\ prev.same /\ ~call_graph.reused
  /\ prev.reused /\ prev.edited
  /\ eval_result.tag = "Ok" /\ eval_result = prev.result

\* C9: once eval_graph has returned, the node-state map holds no Processing
\* and no Cached entry.
C9_StateDiscarded == eval_pc = "done" => exec_nodes = << >>

\* A call that ran away went round a cycle of nodes that are not cache-eligible.
OverflowOnlyOnUncachedCycle ==
  eval_pc = "overflow" =>
    \E n \in Reachable \cap DOMAIN nodes : ~cache_output(nodes[n].kind) /\ OnCycle(n)

\* C10: on a graph with no designated output, eval_graph and compile_graph
\* return the missing-output error; no node is visited or evaluated, no node is
\* marked compiled and no statement or output is added to any block.
C10_MissingOutputTouchesNothing ==
  output = NoNode =>
    /\ eval_result \in {NoResult, MissingOutput}
    /\ visits = 0 /\ eval_count = NoCalls /\ exec_nodes = << >>
    /\ compile_result \in {NoResult, MissingOutput}
    /\ compile.compiled = {}
    /\ \A b \in DOMAIN compile.blocks : compile.blocks[b] = NewCodeBlock

\* C10 witness: both calls have returned the error on a graph that has nodes,
\* with a block defined and pushed for the compiler to write to.
C10_Witness ==
  /\ output = NoNode /\ nodes # << >>
  /\ eval_pc = "done" /\ eval_result = MissingOutput
  /\ compile_result = MissingOutput
  /\ compile.stack # << >>

\* ------------------------------------------------- claims: the value layer
MatrixSize(dt) == CASE dt = "Mat2" -> 2 [] dt = "Mat3" -> 3 [] dt = "Mat4" -> 4 [] OTHER -> 0

\* The cast or constructor of each concrete type in the generated text.
CtorOf(dt) ==
  CASE dt = "I32" -> "i32(" [] dt = "U32" -> "u32(" [] dt = "F32" -> "f32("
    [] dt = "Vec2" -> "vec2<f32>(" [] dt = "Vec3" -> "vec3<f32>(" [] dt = "Vec4" -> "vec4<f32>("
    [] dt = "Mat2" -> "mat2x2<f32>(" [] dt = "Mat3" -> "mat3x3<f32>(" [] OTHER -> "mat4x4<f32>("

\* C16: convert from a matrix type to a strictly larger matrix type returns an
\* error and leaves the value's text and type as they were.
C16_MatrixPromotionFails ==
  (/\ fn_call.op = "convert"
   /\ MatrixSize(fn_call.v.dt) > 0
   /\ MatrixSize(fn_call.to_dt) > MatrixSize(fn_call.v.dt)) =>
    ~fn_ret.ok /\ fn_ret.value = fn_call.v

\* C16 witness: convert was called on a Mat2 value to Mat3 and failed.
C16_Witness ==
  /\ fn_call.op = "convert" /\ fn_call.v.dt = "Mat2" /\ fn_call.to_dt = "Mat3"
  /\ ~fn_ret.ok /\ fn_ret.value.dt = "Mat2"

\* C17: for two distinct concrete types with a defined conversion (convert
\* returns Ok), the value gets the target type and its text is a cast or a
\* constructor of exactly the target type applied to the old text.
C17_ConvertEmitsTargetType ==
  (/\ fn_call.op = "convert"
   /\ fn_call.v.dt \in ConcreteTypes /\ fn_call.to_dt \in ConcreteTypes
   /\ fn_call.v.dt # fn_call.to_dt
   /\ fn_ret.ok) =>
    /\ fn_ret.value.dt = fn_call.to_dt
    /\ Head(fn_ret.value.value) = CtorOf(fn_call.to_dt)
    /\ SubSeq(fn_ret.value.value, 2, 1 + Len(fn_call.v.value)) = fn_call.v.value

\* C18 as stated: convert of a value of any concrete type to Dynamic,
\* DynamicVector or DynamicMatrix returns Ok and changes nothing.
C18_DynamicIsNoOp ==
  (/\ fn_call.op = "convert"
   /\ fn_call.v.dt \in ConcreteTypes /\ fn_call.to_dt \in DynamicTypes) =>
    fn_ret.ok /\ fn_ret.value = fn_call.v

\* The dynamic targets that take a value of concrete type `from`.
DynamicTargets(from) ==
  IF class(from) = "Matrix" THEN {"Dynamic", "DynamicMatrix"} ELSE {"Dynamic", "DynamicVector"}

\* C18 amended: convert of a value of concrete type to Dynamic, to
\* DynamicVector for a scalar or a vector, or to DynamicMatrix for a matrix
\* returns Ok and changes nothing; to DynamicMatrix for a scalar or a vector
\* and to DynamicVector for a matrix it returns an error and changes nothing.
C18_DynamicOfOwnClassIsNoOp ==
  (/\ fn_call.op = "convert"
   /\ fn_call.v.dt \in ConcreteTypes /\ fn_call.to_dt \in DynamicTypes) =>
    /\ fn_ret.ok = (fn_call.to_dt \in DynamicTargets(fn_call.v.dt))
    /\ fn_ret.value = fn_call.v

\* C18 witness: a Vec3 value converted to DynamicVector came back as it was.
C18_Witness ==
  /\ fn_call.op = "convert" /\ fn_call.v.dt = "Vec3" /\ fn_call.to_dt = "DynamicVector"
  /\ fn_ret.ok /\ fn_ret.value = fn_call.v

\* C19: is_compatible never says that two matrix types of different sizes
\* are compatible.
C19_MatrixSizesIncompatible ==
  (/\ fn_call.op = "is_compatible"
   /\ MatrixSize(fn_call.self) > 0 /\ MatrixSize(fn_call.other) > 0
   /\ fn_call.self # fn_call.other) =>
    fn_ret = FALSE

\* The typing rule of the graph: same type, or a scalar with a vector, or two
\* scalars, or two vectors; never two matrices of different sizes.
Compatible(a, b) ==
  \/ a = b
  \/ class(a) \in {"Scalar", "Vector"} /\ class(b) \in {"Scalar", "Vector"}

\* C20: a Connect to an output whose type is not compatible with the port's
\* type is rejected, whether the Input names the output's type or not.
C20_IncompatibleConnectRejected ==
  (/\ fn_call.op = "set_input"
   /\ ~Compatible(data_type(fn_call.ty), fn_call.odt)) =>
    ~fn_ret.ok

\* ---------------------------------------------------- claims: the compiler
\* The `let` statements of a block that define `name`.
LetsOf(b, name) == {i \in 1..Len(b.code) : b.code[i].let = name}

\* The `let` statements of a block.
Lets(b) == {i \in 1..Len(b.code) : b.code[i].let # << >>}

\* The outputs of a block that are Compiled.
CompiledOutputs(b) == {id \in DOMAIN b.outputs : b.outputs[id].tag = "Compiled"}

\* The current block of the compiler after a call that left the stack alone.
CurrentBlock == compile.blocks[Top(compile)]

\* C12: an output registered in a block has exactly one `let` statement in
\* that block once it was resolved and none before; the resolve_output that
\* finds the entry LazyCode appends the statement, makes the entry Compiled
\* and returns the new name, and a resolve_output that finds it Compiled
\* returns that same name and appends nothing.
C12_LazyOutputEmittedOnce ==
  /\ \A b \in DOMAIN compile.blocks :
       /\ \A id \in CompiledOutputs(compile.blocks[b]) :
            Cardinality(LetsOf(compile.blocks[b], compile.blocks[b].outputs[id].value.value)) = 1
       /\ Cardinality(Lets(compile.blocks[b])) = Cardinality(CompiledOutputs(compile.blocks[b]))
  /\ (/\ fn_call.op = "resolve_output"
      /\ fn_call.id \in DOMAIN fn_call.block.outputs) =>
       LET was == fn_call.block.outputs[fn_call.id]
       IN /\ fn_ret.ok
          /\ CurrentBlock.outputs[fn_call.id] = Compiled(fn_ret.value)
          /\ IF was.tag = "LazyCode"
             THEN /\ CurrentBlock.code =
                       Append(fn_call.block.code, Let(fn_ret.value.value, was.code))
                  /\ LetsOf(fn_call.block, fn_ret.value.value) = {}
             ELSE /\ CurrentBlock = fn_call.block
                  /\ fn_ret.value = was.value

\* C12 witness: an output that was Compiled already was resolved again, in a
\* block that also holds an output nobody resolved.
C12_Witness ==
  /\ fn_call.op = "resolve_output"
  /\ fn_call.id \in CompiledOutputs(fn_call.block)
  /\ fn_ret.ok
  /\ \E id \in DOMAIN CurrentBlock.outputs : CurrentBlock.outputs[id].tag = "LazyCode"

\* C13: a pop of the id that the caller's push_new_block returned, with only
\* matched pairs between the two calls, succeeds and leaves the stack and the
\* current block as they were before the push.
C13_MatchedPopRestores ==
  (fn_call.op = "pop" /\ fn_call.frame # NoFrame) =>
    /\ fn_ret.ok
    /\ compile.stack = fn_call.frame.stack
    /\ current_block(compile).id = fn_call.frame.current

\* C13 witness: the caller popped a block it had pushed on top of another
\* one, after a Fragment node pushed and popped its own block.
C13_Witness ==
  /\ fn_call.op = "pop" /\ fn_call.frame # NoFrame
  /\ Len(fn_call.frame.stack) = 1
  /\ "fragment" \in DOMAIN compile.names
  /\ fn_ret.ok

\* C14: pop(expect) returns Ok exactly when the block on top of the stack
\* (None for an empty stack) equals expect, and the stack-corruption error
\* whenever it differs.
C14_PopChecksTop ==
  fn_call.op = "pop" =>
    (fn_ret.ok <=>
       (IF fn_call.stack = << >> THEN NoBlock ELSE fn_call.stack[Len(fn_call.stack)])
         = fn_call.expect)

\* C14 witness: pop(None) on a stack that was not empty returned the error.
C14_Witness ==
  /\ fn_call.op = "pop" /\ fn_call.expect = NoBlock /\ fn_call.stack # << >>
  /\ ~fn_ret.ok

\* The statements of the blocks with ids i..next_id: ids are given in the
\* order of first definition.
RECURSIVE ByDefinition(_, _)
ByDefinition(c, i) ==
  IF i > c.next_id THEN << >> ELSE c.blocks[i].code \o ByDefinition(c, i + 1)

IsPrefix(s, t) == Len(s) <= Len(t) /\ SubSeq(t, 1, Len(s)) = s

\* C15: dump returns the statements of all blocks in the order in which the
\* blocks were first defined, whatever was pushed, popped or written to, and
\* a block keeps its statements in the order in which they were appended.
C15_DumpInDefinitionOrder ==
  /\ [](dump(compile) = ByDefinition(compile, 1))
  /\ [][\A b \in DOMAIN compile.blocks :
          \/ IsPrefix(compile.blocks[b].code, compile'.blocks[b].code)
          \/ compile'.blocks[b] = NewCodeBlock]_vars

\* C15 witness: "bindings" was defined before "imports", a Fragment node then
\* wrote to "imports" first, and the text starts with the bindings.
C15_Witness ==
  /\ {"imports", "bindings", "fragment"} \subseteq DOMAIN compile.names
  /\ compile.names["bindings"] < compile.names["imports"]
  /\ compile.blocks[compile.names["imports"]].code # << >>
  /\ compile.blocks[compile.names["fragment"]].code # << >>
  /\ Head(dump(compile)) = Raw("bindings")

\* The reference sites of node s: the connected inputs of Scalar Math nodes
\* that name its output, each with the block that holds the consumer's
\* expression (its registered output).
Sites(s) ==
  {site \in [k : ConnectedPorts, b : DOMAIN compile.blocks] :
     /\ PortTarget(site.k) = OutputId(s, 0)
     /\ nodes[site.k.node].kind = "ScalarMath"
     /\ OutputId(site.k.node, 0) \in DOMAIN compile.blocks[site.b].outputs}

\* The expression of a registered output: the code of its LazyCode entry, or
\* of the `let` statement it was turned into.
ExprOf(b, id) ==
  IF b.outputs[id].tag = "LazyCode" THEN b.outputs[id].code
  ELSE b.code[CHOOSE i \in LetsOf(b, b.outputs[id].value.value) : TRUE].code

\* What a reference site wrote for its operand: `(<A> + <B>)`, a variable
\* name being three pieces long.
Operand(site) ==
  SubSeq(ExprOf(compile.blocks[site.b], OutputId(site.k.node, 0)),
         2 + 4 * site.k.idx, 4 + 4 * site.k.idx)

\* The statements of the whole text that emit node s: the `let` of its
\* Compiled output in the block that holds it.
EmittedFor(s) ==
  {e \in [b : DOMAIN compile.blocks, i : 1..Len(dump(compile))] :
     /\ OutputId(s, 0) \in CompiledOutputs(compile.blocks[e.b])
     /\ e.i \in LetsOf(compile.blocks[e.b], compile.blocks[e.b].outputs[OutputId(s, 0)].value.value)}

\* C11: a node whose output is connected to more than one input is emitted
\* once in the text however often it is referenced, and every reference site
\* uses the variable name of that one statement.
C11_FanOutEmittedOnce ==
  \A s \in DOMAIN nodes :
    Cardinality({k \in ConnectedPorts : PortTarget(k) = OutputId(s, 0)}) > 1 =>
      /\ Cardinality(EmittedFor(s)) <= 1
      /\ \A site \in Sites(s) :
           /\ Cardinality(EmittedFor(s)) = 1
           /\ \A e \in EmittedFor(s) :
                e.b = site.b /\ compile.blocks[e.b].code[e.i].let = Operand(site)

\* C11 witness: both inputs of node 2 are connected to node 1; the text has
\* one statement for node 1 and the statement of node 2 names it twice.
C11_Witness ==
  /\ Cardinality(Sites(1)) = 2 /\ Cardinality(EmittedFor(1)) = 1
  /\ \E b \in DOMAIN compile.blocks :
       /\ OutputId(2, 0) \in CompiledOutputs(compile.blocks[b])
       /\ \E i \in LetsOf(compile.blocks[b], compile.blocks[b].outputs[OutputId(1, 0)].value.value) :
            ExprOf(compile.blocks[b], OutputId(2, 0)) =
              <<"(">> \o compile.blocks[b].code[i].let \o <<" + ">>
                \o compile.blocks[b].code[i].let \o <<")">>

\* ------------------------------------------------------- claims: the ports
\* A key names a declared input of a node kind: a declared name, or a
\* position below the number of declared inputs.
Declared(kind, key) ==
  IF key.tag = "Idx" THEN key.idx < NumInputs(kind)
  ELSE \E i \in 1..NumInputs(kind) : KindInputNames(kind)[i] = key.name

\* The recorded call returned an error.
ReturnedErr == IF fn_call.op = "set_node_input" THEN fn_ret = "Err" ELSE ~fn_ret.ok

\* C21: set_node_input and get_node_input on a stored node with a key that
\* names no declared input, an unknown name or a position beyond the
\* declared inputs, return an error.
C21_UnknownKeyIsError ==
  (/\ fn_call.op \in {"set_node_input", "get_node_input"}
   /\ fn_call.id \in DOMAIN nodes
   /\ ~Declared(nodes[fn_call.id].kind, fn_call.key)) =>
    ReturnedErr

\* The type of the port a recorded call names.
PortType(id, key) ==
  KindInputTypes(nodes[id].kind)[get_input_idx(nodes[id].kind, key).idx + 1]

\* C22: set_node_input of a literal whose DataType is not the DataType of
\* the port returns an error.
C22_WrongLiteralTypeIsError ==
  (/\ fn_call.op = "set_node_input"
   /\ fn_call.id \in DOMAIN nodes
   /\ Declared(nodes[fn_call.id].kind, fn_call.key)
   /\ fn_call.value.tag = "Value"
   /\ fn_call.value.value.dt # data_type(PortType(fn_call.id, fn_call.key))) =>
    fn_ret = "Err"

\* C23: after a successful set_node_input(id, key, s) on a declared input,
\* get_node_input(id, key) reports s: Disconnect, the Connect with its
\* output, or the literal that was given.
C23_GetReportsWhatWasSet ==
  (/\ fn_call.op = "set_node_input"
   /\ fn_call.id \in DOMAIN nodes
   /\ Declared(nodes[fn_call.id].kind, fn_call.key)
   /\ fn_ret = "Ok") =>
    get_node_input(fn_call.id, fn_call.key) = [ok |-> TRUE, input |-> fn_call.value]

\* C24: add returns an id that no stored node held, stores the new node under
\* it, leaves every stored node as it was and makes the graph one node
\* larger, also when the node passed in carries the id of a stored node.
C24_AddIsFresh ==
  [][(last'.op = "add" /\ changed' # changed) =>
       /\ last'.ret \notin DOMAIN nodes
       /\ DOMAIN nodes' = DOMAIN nodes \cup {last'.ret}
       /\ \A n \in DOMAIN nodes : nodes'[n] = nodes[n]
       /\ Cardinality(DOMAIN nodes') = Cardinality(DOMAIN nodes) + 1]_vars

\* C24 witness: a node carrying the id of a stored node was added and got
\* another id.
C24_Witness ==
  /\ last.op = "add" /\ last.id # last.ret
  /\ {last.id, last.ret} \subseteq DOMAIN nodes

\* ---------------------------------------------------------- the registry
MaxDefIds == 2
\* (mutant) register that replaces a definition and returns None.
register_Silent(def) ==
  /\ registry' = [nodes |-> MapInsert(registry.nodes, def.id, def),
                  name_to_id |-> MapInsert(registry.name_to_id, def.name, def.id),
                  categories |-> MapInsert(registry.categories, def.name, def.id)]
  /\ fn_call' = [op |-> "register", def |-> def]
  /\ fn_ret' = NoneDef
  /\ UNCHANGED <<gvars, evars, cvars, pushed, executions>>

\* NodeRegistry::register, NodeRegistryInner::register: the name is entered
\* in the category and in name_to_id, the definition is inserted under its
\* id, and what the insert replaced is returned.
register(def) ==
  /\ registry' = [nodes |-> MapInsert(registry.nodes, def.id, def),
                  name_to_id |-> MapInsert(registry.name_to_id, def.name, def.id),
                  categories |-> MapInsert(registry.categories, def.name, def.id)]
  /\ fn_call' = [op |-> "register", def |-> def]
  /\ fn_ret' = IF def.id \in DOMAIN registry.nodes
                THEN [some |-> registry.nodes[def.id]] ELSE NoneDef
  /\ UNCHANGED <<gvars, evars, cvars, pushed, executions>>

\* The definitions handed to register: a stable id, a name and the source
\* file that tells two definitions of one id apart.
SpecRegistry ==
  /\ Init
  /\ [][\E def \in [id : 1..MaxDefIds, name : {"Add", "Mul"}, source_file : {"a.rs", "b.rs"}] :
          register(def)]_vars

\* C25: register reports a duplicate to its caller: when the stable id of
\* the definition is already registered the call returns the definition
\* that was registered under it, and it returns None exactly when the id
\* was not registered before.
C25_RegisterReportsDuplicate ==
  [][fn_call'.op = "register" =>
       /\ (fn_call'.def.id \in DOMAIN registry.nodes =>
             fn_ret' = [some |-> registry.nodes[fn_call'.def.id]])
       /\ (fn_ret' = NoneDef <=> fn_call'.def.id \notin DOMAIN registry.nodes)]_vars

\* C25 witness: a second definition was registered under a registered id
\* and the call returned the first one.
C25_Witness ==
  /\ fn_call.op = "register"
  /\ fn_ret # NoneDef
  /\ fn_ret.some.id = fn_call.def.id
  /\ fn_ret.some # fn_call.def

\* ----------------------------------------------- the dynamic-type resolver
MaxDynInputs == 3

\* The width of a vector or matrix type, 0 for a scalar.
TypeWidth(dt) ==
  CASE dt \in {"Vec2", "Mat2"} -> 2
    [] dt \in {"Vec3", "Mat3"} -> 3
    [] dt \in {"Vec4", "Mat4"} -> 4
    [] OTHER -> 0

\* NodeConcreteType::add_input_type on the accumulator ct, a record of the
\* counts scalar, vector and matrix and the minimum width min (0: none yet):
\* the class of the type is counted, and the width of a vector or matrix
\* lowers the minimum.
NodeConcreteType_add_input_type(ct, dt) ==
  IF class(dt) = "Scalar" THEN [ct EXCEPT !.scalar = @ + 1]
  ELSE LET w == IF ct.min = 0 \/ TypeWidth(dt) < ct.min THEN TypeWidth(dt) ELSE ct.min
       IN IF class(dt) = "Vector" THEN [ct EXCEPT !.vector = @ + 1, !.min = w]
          ELSE [ct EXCEPT !.matrix = @ + 1, !.min = w]

\* NodeConcreteType::has_dynamic: some input type was accumulated.
NodeConcreteType_has_dynamic(ct) == ct.scalar + ct.vector + ct.matrix > 0

\* NodeConcreteType::data_type: the resolved concrete type.
NodeConcreteType_data_type(ct) ==
  IF ct.matrix > 0 /\ ct.vector = 0
  THEN (CASE ct.min = 2 -> "Mat2" [] ct.min = 3 -> "Mat3" [] OTHER -> "Mat4")
  ELSE IF ct.vector > 0
  THEN (CASE ct.min = 2 -> "Vec2" [] ct.min = 3 -> "Vec3" [] OTHER -> "Vec4")
  ELSE "F32"

\* ValueType::is_dynamic of the type of a port.
is_dynamic(ty) == ty \in {"Dynamic", "DynamicVector"}

\* A port as resolve reads it: its type (DynamicVector, Dynamic or f32),
\* whether it is connected, and the type of the connected output or of the
\* literal it holds (a dynamic port holds a scalar or a vector).
DynPorts ==
  {[ty |-> ty, connected |-> TRUE, dt |-> dt] :
     ty \in {"DynamicVector", "Dynamic", "F32"}, dt \in ConcreteTypes}
    \cup {[ty |-> ty, connected |-> FALSE, dt |-> dt] :
            ty \in {"DynamicVector", "Dynamic"}, dt \in {"F32", "Vec2", "Vec3", "Vec4"}}
    \cup {[ty |-> "F32", connected |-> FALSE, dt |-> "F32"]}

\* What the port hands to resolve: the variable of the connected output, or
\* the compiled literal.
DynPortValue(port) ==
  IF port.connected THEN CompiledValue(<<"out", "_", "1">>, port.dt)
  ELSE CompiledValue(<<"literal", port.dt>>, port.dt)

\* (mutant) resolve that accumulates the type of a literal as well.
InputTyped_resolve_CountsLiteral(ct, port) ==
  [ok |-> convert(DynPortValue(port), port.ty).ok,
   ct |-> IF is_dynamic(port.ty)
          THEN NodeConcreteType_add_input_type(ct, DynPortValue(port).dt) ELSE ct,
   value |-> convert(DynPortValue(port), port.ty).value]

\* InputTyped::resolve: [ok, ct, value]; the type of a connected dynamic
\* input is accumulated, and the value is converted to the port's type.
InputTyped_resolve(ct, port) ==
  [ok |-> convert(DynPortValue(port), port.ty).ok,
   ct |-> IF port.connected /\ is_dynamic(port.ty)
          THEN NodeConcreteType_add_input_type(ct, DynPortValue(port).dt) ELSE ct,
   value |-> convert(DynPortValue(port), port.ty).value]

\* resolve_inputs, first loop: every port is resolved in field order into
\* one accumulator; the first error ends the call.  [ok, ct, values]
RECURSIVE resolve_each(_, _, _)
resolve_each(ports, ct, values) ==
  IF ports = << >> THEN [ok |-> TRUE, ct |-> ct, values |-> values]
  ELSE LET r == InputTyped_resolve(ct, Head(ports))
       IN IF ~r.ok THEN [ok |-> FALSE, ct |-> r.ct, values |-> values]
          ELSE resolve_each(Tail(ports), r.ct, Append(values, r.value))

\* resolve_inputs, second loop: the value of every dynamic port is converted
\* to the resolved type (NodeConcreteType::convert).  [ok, values]
RECURSIVE convert_each(_, _, _, _)
convert_each(ports, ct, values, done) ==
  IF ports = << >> THEN [ok |-> TRUE, values |-> done]
  ELSE IF ~is_dynamic(Head(ports).ty)
  THEN convert_each(Tail(ports), ct, Tail(values), Append(done, Head(values)))
  ELSE LET r == convert(Head(values), NodeConcreteType_data_type(ct))
       IN IF ~r.ok THEN [ok |-> FALSE, values |-> done]
          ELSE convert_each(Tail(ports), ct, Tail(values), Append(done, r.value))

\* impl_node! resolve_inputs, from NodeConcreteType::default: [ok, ct, values]
resolve_inputs(ports) ==
  LET r == resolve_each(ports, [scalar |-> 0, vector |-> 0, matrix |-> 0, min |-> 0], << >>)
      c == convert_each(ports, r.ct, r.values, << >>)
  IN IF ~r.ok THEN [ok |-> FALSE, ct |-> r.ct, values |-> << >>]
     ELSE IF ~NodeConcreteType_has_dynamic(r.ct) THEN r
     ELSE [ok |-> c.ok, ct |-> r.ct, values |-> c.values]

\* The compile logic of a node of one to MaxDynInputs ports calls
\* resolve_inputs, once.
call_resolve_inputs ==
  /\ fn_call = NoCall
  /\ \E ports \in UNION {[1..n -> DynPorts] : n \in 1..MaxDynInputs} :
       /\ fn_call' = [op |-> "resolve_inputs", ports |-> ports]
       /\ fn_ret' = resolve_inputs(ports)
  /\ UNCHANGED <<gvars, evars, cvars, pushed, registry, executions>>

SpecResolve == Init /\ [][call_resolve_inputs]_vars

\* The types of the connected dynamic inputs of a port list.
ConnectedDynamicTypes(ports) ==
  {ports[i].dt : i \in {j \in 1..Len(ports) : ports[j].connected /\ is_dynamic(ports[j].ty)}}

\* The class the claim gives to a set of input types.
ExpectedClass(types) ==
  IF (\E t \in types : class(t) = "Matrix") /\ ~(\E t \in types : class(t) = "Vector")
  THEN "Matrix"
  ELSE IF \E t \in types : class(t) = "Vector" THEN "Vector" ELSE "Scalar"

\* The widths of the vector and matrix types of a set of input types.
Widths(types) == {TypeWidth(t) : t \in {u \in types : class(u) # "Scalar"}}

\* A port list in another order of accumulation.
Reordered(ports, p) == [i \in 1..Len(ports) |-> ports[p[i]]]

\* C26: the type resolved from the connected dynamic inputs has class Matrix
\* if there is a matrix and no vector among them, else Vector if there is a
\* vector, else Scalar; its width is the smallest width among the vectors
\* and matrices; and every order of the inputs resolves to the same type.
C26_ResolvedClassAndWidth ==
  (fn_call.op = "resolve_inputs" /\ fn_ret.ok) =>
    LET types == ConnectedDynamicTypes(fn_call.ports)
        dt == NodeConcreteType_data_type(fn_ret.ct)
    IN /\ class(dt) = ExpectedClass(types)
       /\ Widths(types) # {} =>
            /\ TypeWidth(dt) \in Widths(types)
            /\ \A w \in Widths(types) : TypeWidth(dt) <= w
       /\ \A p \in Permutations(1..Len(fn_call.ports)) :
            NodeConcreteType_data_type(resolve_inputs(Reordered(fn_call.ports, p)).ct) = dt

\* C26 witness: a 4-wide and then a 2-wide connected input resolved to Vec2.
C26_Witness ==
  /\ fn_call.op = "resolve_inputs" /\ fn_ret.ok
  /\ Len(fn_call.ports) >= 2
  /\ fn_call.ports[1] = [ty |-> "DynamicVector", connected |-> TRUE, dt |-> "Vec4"]
  /\ fn_call.ports[2] = [ty |-> "DynamicVector", connected |-> TRUE, dt |-> "Vec2"]
  /\ NodeConcreteType_data_type(fn_ret.ct) = "Vec2"

\* C27: when resolve_inputs returns Ok, the values of all dynamic inputs of
\* the node, connected or literal, have one and the same concrete type.
C27_DynamicInputsAgree ==
  (fn_call.op = "resolve_inputs" /\ fn_ret.ok) =>
    \A i, j \in {k \in 1..Len(fn_call.ports) : is_dynamic(fn_call.ports[k].ty)} :
      fn_ret.values[i].dt = fn_ret.values[j].dt

\* ------------------------------------------------- concurrent evaluations
\* NodeGraphExecution::eval_graph on the execution m, up to the first
\* eval_node.
eval_graph_start(m) ==
  IF graph_output = NoNode
  THEN Finish([clear(m) EXCEPT !.pc = "running", !.result = NoResult, !.count = NoCalls,
                               !.visits = 0, !.stack = << >>], MissingOutput)
  ELSE eval_node([clear(m) EXCEPT !.pc = "running", !.result = NoResult, !.count = NoCalls,
                                  !.visits = 0, !.stack = << >>], graph_output)

\* The next step of the eval logic on top of the stack of m: it evaluates
\* its next connected input, or has all its inputs and returns.
eval_step(m) ==
  IF m.stack[Len(m.stack)].idx \in DOMAIN nodes[m.stack[Len(m.stack)].id].inputs
  THEN eval_node(m, nodes[m.stack[Len(m.stack)].id]
                      .inputs[m.stack[Len(m.stack)].idx].connected.id.node)
  ELSE eval_node_return(m)

\* An execution run with nothing else running, until its call returns.
RECURSIVE eval_run(_)
eval_run(m) == IF m.pc # "running" THEN m ELSE eval_run(eval_step(m))

\* (mutant) executions whose node-state map is one map shared by all.
with_execution_Shared(execs, e, m) ==
  [x \in DOMAIN execs |-> IF x = e THEN m ELSE [execs[x] EXCEPT !.exec = m.exec]]

\* A step of execution e leaves it as m: the node-state map is a field of
\* the execution, borrowed mutably by its call alone.
with_execution(execs, e, m) == [execs EXCEPT ![e] = m]

\* Execution e starts eval_graph on the graph.
concurrent_eval_graph(e) ==
  /\ executions[e].pc = "idle"
  /\ executions' = with_execution(executions, e, eval_graph_start(executions[e]))
  /\ UNCHANGED <<gvars, evars, cvars, fn_call, fn_ret, pushed, registry>>

\* Execution e takes its next step, whatever the others are doing.
concurrent_eval_step(e) ==
  /\ executions[e].pc = "running"
  /\ executions' = with_execution(executions, e, eval_step(executions[e]))
  /\ UNCHANGED <<gvars, evars, cvars, fn_call, fn_ret, pushed, registry>>

NextConcurrent ==
  \/ \E e \in 1..MaxExecutions : concurrent_eval_graph(e)
  \/ \E e \in 1..MaxExecutions : concurrent_eval_step(e)

SpecConcurrent == InitGraphs /\ [][NextConcurrent]_vars

ConsumerInputs(id) == {k \in DOMAIN connections : connections[k].node = id}

\* The sum of the eval logic calls of the nodes that own the inputs in ks.
RECURSIVE ConsumerCalls(_)
ConsumerCalls(ks) ==
  IF ks = {} THEN 0
  ELSE LET k == CHOOSE x \in ks : TRUE
       IN eval_count[k.node] + ConsumerCalls(ks \ {k})

\* The visits of node id in a call that returned a value: one as the graph's
\* output, and one for each connected consumer input each time the consumer's
\* eval logic ran.
VisitsOf(id) == (IF graph_output = id THEN 1 ELSE 0) + ConsumerCalls(ConsumerInputs(id))

\* The stored nodes whose kind is not cache-eligible.
NeverCached == {id \in DOMAIN nodes : ~cache_output(nodes[id].kind)}

\* C29: a node whose kind is not cache-eligible never has an entry in the
\* node-state map, and in a call that returned a value its eval logic ran
\* once for each visit: once per connected consumer input reached.
C29_UncachedRunsPerVisit ==
  \A id \in NeverCached :
    /\ id \notin DOMAIN exec_nodes
    /\ (eval_pc = "done" /\ eval_result.tag = "Ok") => eval_count[id] = VisitsOf(id)

\* C29 witness: a call returned a value after the eval logic of a node that
\* is not cache-eligible ran twice, once for each of two consumer inputs.
C29_Witness ==
  /\ eval_pc = "done" /\ eval_result.tag = "Ok"
  /\ \E id \in NeverCached :
       /\ eval_count[id] = 2
       /\ Cardinality(ConsumerInputs(id)) = 2

\* ------------------------------------------- claims: the change counter
\* C30: the change counter never decreases, and every step that alters the
\* stored nodes (the node set or the state of an input), the connection
\* index or the designated output strictly increases it.
C30_CounterDetectsChange ==
  [][/\ changed' >= changed
     /\ (nodes' # nodes \/ connections' # connections \/ output' # output) =>
          changed' > changed]_vars

\* --------------------------------------------------- claims on failed edits
\* C31: when set_node_input returns an error, the graph is unchanged: the
\* connection index and every node's input state, the previous connection of
\* the addressed port included, are as they were before the call.
C31_ErrorLeavesGraphUnchanged ==
  [][(fn_call'.op = "set_node_input" /\ fn_ret' = "Err")
       => (nodes' = nodes /\ connections' = connections)]_vars

\* ------------------------------------------------ claims: compiling again
\* A new compiler given the block definitions and the pushed blocks of c.
AsNew(c) ==
  [c EXCEPT !.blocks = [b \in DOMAIN c.blocks |-> NewCodeBlock],
            !.compiled = {}, !.dispatched = << >>]

\* The compiler after compile_graph ran on c.
Recompiled(c) == IF graph_output = NoNode THEN c ELSE compile_node(c, graph_output).c

\* C32: after clear(), compile_graph on the same graph with the same block
\* pushed produces the same dump() text as a newly created compiler given
\* the same block definitions.
C32_ClearThenCompileAsNew ==
  [][(fn_call.op = "clear" /\ fn_call'.op = "compile_graph")
       => dump(compile') = dump(Recompiled(AsNew(compile)))]_vars

\* The blocks of compiler c in which output id is registered.
RegisteredIn(c, id) == {b \in DOMAIN c.blocks : id \in DOMAIN c.blocks[b].outputs}

\* C33: once a node's compile logic has completed and registered an output,
\* resolve_output for that output succeeds, whichever block is on top of the
\* block stack at the time of the call.
C33_RegisteredOutputResolves ==
  [][(/\ fn_call'.op = "resolve_output"
      /\ RegisteredIn(compile, fn_call'.id) # {}
      /\ current_block(compile).ok)
       => fn_ret'.ok]_vars

\* The generated variable names in an expression: <prefix>, "_", <counter>.
UsedNames(code) ==
  {<<code[k - 1], code[k], code[k + 1]>> : k \in {j \in 2..(Len(code) - 1) : code[j] = "_"}}

C35_CompileGraphKeepsStack ==
  fn_call.op = "compile_graph" => compile.stack = fn_call.stack

\* ------------------------------------------- claims: the cache as a shortcut
\* The reference evaluation: every node is recomputed on every visit.  The
\* inputs of a node are evaluated in declaration order, each value is
\* converted to the port's type, and the first error is the result.
RECURSIVE RefNode(_)
RECURSIVE RefInputs(_, _, _)
RefInputs(id, idx, vals) ==
  IF idx \notin DOMAIN nodes[id].inputs THEN Ok(KindEval(nodes[id].kind, vals))
  ELSE LET port == nodes[id].inputs[idx]
           ty == KindInputTypes(nodes[id].kind)[idx + 1]
       IN IF port.connected = NoConn THEN RefInputs(id, idx + 1, Append(vals, port.value))
          ELSE LET r == RefNode(port.connected.id.node)
               IN IF r.tag # "Ok" THEN r
                  ELSE LET v == set_value(ty, DefaultValue(ty), r.value)
                       IN IF ~v.ok THEN ValueError
                          ELSE RefInputs(id, idx + 1, Append(vals, v.value))

RefNode(id) == IF id \notin DOMAIN nodes THEN MissingNode ELSE RefInputs(id, 0, << >>)

RefGraph == IF graph_output = NoNode THEN MissingOutput ELSE RefNode(graph_output)

\* No node that a traversal from the output gets to is on a cycle.
Acyclic == \A n \in Reachable : ~OnCycle(n)

\* C36: on every acyclic graph, eval_graph with the per-run cache returns
\* what the reference evaluation returns, whichever nodes are cache-eligible.
C36_CacheAgreesWithReference ==
  (eval_pc = "done" /\ Acyclic) => eval_result = RefGraph

\* C36 witness: a call returned a value on an acyclic graph in which a cached
\* node feeds two inputs the traversal gets to, so the second one was served
\* from the cache.
C36_Witness ==
  /\ eval_pc = "done" /\ Acyclic /\ eval_result.tag = "Ok"
  /\ \E n \in DOMAIN exec_nodes :
       Cardinality({k \in ConnectedPorts :
                      PortTarget(k) = OutputId(n, 0) /\ k.node \in Reachable}) > 1

\* C37: compile_graph returns on every graph, cyclic ones included, and
\* within one compiler the compile logic of each NodeId is dispatched at
\* most once.
C37_DispatchedAtMostOnce ==
  /\ \A n \in DOMAIN compile.dispatched : compile.dispatched[n] <= 1
  /\ fn_call.op = "compile_graph" => fn_ret.tag \in {"Ok", "Err"}

\* C37 witness: compile_graph returned on a graph whose output can get to a
\* node on a cycle, and that node's compile logic ran once.
C37_Witness ==
  /\ fn_call.op = "compile_graph"
  /\ \E n \in Reachable \cap DOMAIN compile.dispatched :
       OnCycle(n) /\ compile.dispatched[n] = 1

\* C38: within one block no two `let` statements define the same variable
\* name, and the block's counter equals the number of names generated since
\* the block was last cleared.
C38_LetNamesDistinct ==
  \A b \in DOMAIN compile.blocks :
    /\ \A i, j \in Lets(compile.blocks[b]) :
         i # j => compile.blocks[b].code[i].let # compile.blocks[b].code[j].let
    /\ compile.blocks[b].counter = Cardinality(Lets(compile.blocks[b]))
    /\ DOMAIN compile.blocks[b].variables =
         {compile.blocks[b].code[i].let : i \in Lets(compile.blocks[b])}

\* C38 witness: a block holds two `let` statements, named by the counter
\* values 1 and 2.
C38_Witness ==
  \E b \in DOMAIN compile.blocks :
    /\ compile.blocks[b].counter = 2
    /\ {compile.blocks[b].code[i].let : i \in Lets(compile.blocks[b])} =
         {<<"scalar_math", "_", "1">>, <<"scalar_math", "_", "2">>}

\* C39: a pop(expect) that returns the stack-corruption error leaves the
\* block stack, and with it the current block, as they were before the call.
C39_FailedPopKeepsStack ==
  (fn_call.op = "pop" /\ ~fn_ret.ok) => compile.stack = fn_call.stack

====
